---- MODULE Spec2Model ----
(***************************************************************************)
(* Model of the sensor-fault-classification repository:                    *)
(*   - sensor/configuration/mongo_db_connection.py : MongoDBClient         *)
(*   - sensor/components/data_transformation.py    : DataTransformation    *)
(* The two parts share no state; each has its own specification.           *)
(***************************************************************************)
EXTENDS Integers, Sequences, FiniteSets, TLC

\* ---------------------------------------------------------------- bounds
NumThreads == 2
MaxCalls == 3
NumFeatures == 1
MinRows == 2
MaxExtra == 2
MaxRng == 0
LambdaSteps == 2
Precision == 100

\* imblearn SMOTE(k_neighbors=5), the default SMOTETomek uses
K_NEIGHBORS == 5

\* ------------------------------------------------------------- variables
VARIABLES
  \* MongoDBClient
  client,        \* class attribute MongoDBClient.client (0 is None, n > 0 the n-th MongoClient)
  created,       \* number of pymongo.MongoClient objects created so far
  attempts,      \* number of calls of pymongo.MongoClient(...)
  ncalls,        \* number of MongoDBClient(...) constructions started
  call,          \* per caller: the construction in progress (position and self.*)
  instances,     \* the instances whose construction returned
  \* DataTransformation.initiate_data_transformation
  pc,            \* the line the call is at, or "returned" / "raised"
  csv,           \* the two validated files, by path
  disk,          \* the output files, by path: <<>> or <<content>>
  written,       \* the output paths this call has written, in order
  steps,         \* the statements this call has executed, in order
  fit_calls,     \* the feature tables preprocessor.fit was called on, in order
  train_df, test_df,
  preprocessor,  \* the Pipeline object (preprocessor_object is the same object)
  input_feature_train_df, target_feature_train_df,
  input_feature_test_df, target_feature_test_df,
  transformed_input_train_feature, transformed_input_test_feature,
  input_feature_train_final, target_feature_train_final,
  input_feature_test_final, target_feature_test_final,
  train_arr, test_arr,
  artifact,      \* <<>> or <<the DataTransformationArtifact returned>>
  exc            \* <<>> or the exception the call raised (a chain)

mongoVars == <<client, created, attempts, ncalls, call, instances>>

ioVars == <<csv, disk, written>>

splitVars == <<train_df, test_df, input_feature_train_df, target_feature_train_df,
               input_feature_test_df, target_feature_test_df>>

fitVars == <<preprocessor, fit_calls>>

featVars == <<transformed_input_train_feature, transformed_input_test_feature>>

finalVars == <<input_feature_train_final, target_feature_train_final,
               input_feature_test_final, target_feature_test_final>>

arrVars == <<train_arr, test_arr>>

dtVars == <<pc, steps, ioVars, splitVars, fitVars, featVars, finalVars, arrVars,
            artifact, exc>>

vars == <<mongoVars, dtVars>>

\* ================================================================ MongoDBClient
None == 0

Threads == 1..NumThreads

\* database names a caller may pass; "bad name" is one pymongo rejects (InvalidName)
DatabaseNames == {"sensor", "other", "bad name"}

ValidName(n) == n # "bad name"

\* mongo_db_connection.py:9 -- a caller outside a construction
IdleCall == [pc |-> "idle", database_name |-> "", self_client |-> None,
             self_database |-> <<>>, err |-> <<>>]

MongoInit ==
  /\ client = None
  /\ created = 0
  /\ attempts = 0
  /\ ncalls = 0
  /\ call = [t \in Threads |-> IdleCall]
  /\ instances = {}

\* MongoDBClient(database_name): entering __init__
MongoBegin(t, db) ==
  /\ call[t].pc = "idle"
  /\ ncalls < MaxCalls
  /\ ncalls' = ncalls + 1
  /\ call' = [call EXCEPT ![t] = [IdleCall EXCEPT !.pc = "l11", !.database_name = db]]
  /\ UNCHANGED <<client, created, attempts, instances, dtVars>>

\* the same entry when constructions are made one after the other
MongoBeginSeq(t, db) ==
  /\ \A u \in Threads : call[u].pc = "idle"
  /\ MongoBegin(t, db)

\* connecting whatever the class attribute holds
MongoCheckAlwaysConnect(t) ==
  /\ call[t].pc = "l11"
  /\ call' = [call EXCEPT ![t].pc = "l14"]
  /\ UNCHANGED <<client, created, attempts, ncalls, instances, dtVars>>

\* line 11: if MongoDBClient.client is None
MongoCheck(t) ==
  /\ call[t].pc = "l11"
  /\ call' = [call EXCEPT ![t].pc = IF client = None THEN "l14" ELSE "l15"]
  /\ UNCHANGED <<client, created, attempts, ncalls, instances, dtVars>>

\* line 14: MongoDBClient.client = pymongo.MongoClient(url, tlsCAFile=ca)
\* the constructor returns a new client object
MongoConnect(t) ==
  /\ call[t].pc = "l14"
  /\ attempts' = attempts + 1
  /\ created' = created + 1
  /\ client' = created + 1
  /\ call' = [call EXCEPT ![t].pc = "l15"]
  /\ UNCHANGED <<ncalls, instances, dtVars>>

\* lines 18-19: except Exception as e: raise e -- the caught exception itself
Reraise(e) == e

\* line 14 raising (the mongodb+srv URL is resolved in the constructor), then
\* lines 18-19: except Exception as e: raise e
MongoConnectFails(t) ==
  /\ call[t].pc = "l14"
  /\ attempts' = attempts + 1
  /\ call' = [call EXCEPT ![t].pc = "raised", ![t].err = Reraise(<<"ConfigurationError">>)]
  /\ UNCHANGED <<client, created, ncalls, instances, dtVars>>

\* line 15: self.client = MongoDBClient.client
MongoBind(t) ==
  /\ call[t].pc = "l15"
  /\ call' = [call EXCEPT ![t].pc = "l16", ![t].self_client = client]
  /\ UNCHANGED <<client, created, attempts, ncalls, instances, dtVars>>

\* line 16: self.database = self.client[database_name]
\* (a Database is identified by its client and its name); lines 18-19 on InvalidName
MongoIndex(t) ==
  /\ call[t].pc = "l16"
  /\ IF ValidName(call[t].database_name)
       THEN call' = [call EXCEPT ![t].pc = "l17",
                       ![t].self_database = <<call[t].self_client, call[t].database_name>>]
       ELSE call' = [call EXCEPT ![t].pc = "raised", ![t].err = Reraise(<<"InvalidName">>)]
  /\ UNCHANGED <<client, created, attempts, ncalls, instances, dtVars>>

\* line 17: self.database_name = database_name, and __init__ returns
MongoName(t) ==
  /\ call[t].pc = "l17"
  /\ instances' = instances \cup
        {[client |-> call[t].self_client, database |-> call[t].self_database,
          database_name |-> call[t].database_name]}
  /\ call' = [call EXCEPT ![t] = IdleCall]
  /\ UNCHANGED <<client, created, attempts, ncalls, dtVars>>

\* the caller receives the exception raised by __init__
MongoRaised(t) ==
  /\ call[t].pc = "raised"
  /\ call' = [call EXCEPT ![t] = IdleCall]
  /\ UNCHANGED <<client, created, attempts, ncalls, instances, dtVars>>

MongoStep(t) ==
  \/ MongoCheck(t)
  \/ MongoConnect(t)
  \/ MongoConnectFails(t)
  \/ MongoBind(t)
  \/ MongoIndex(t)
  \/ MongoName(t)
  \/ MongoRaised(t)

NextMongo ==
  \/ \E t \in Threads, db \in DatabaseNames : MongoBegin(t, db)
  \/ \E t \in Threads : MongoStep(t)

NextMongoSeq ==
  \/ \E t \in Threads, db \in DatabaseNames : MongoBeginSeq(t, db)
  \/ \E t \in Threads : MongoStep(t)

\* ================================================================ DataTransformation
\* ---- values of a table
\* a csv cell: a number, a missing value, or text that is not a number
Num(v) == [k |-> "num", v |-> v]
NaN == [k |-> "nan", v |-> 0]
Text == [k |-> "str", v |-> 0]

\* a label value: text as read from the csv, or an integer
Str(s) == [kind |-> "str", str |-> s, int |-> 0]
Int_(i) == [kind |-> "int", str |-> "", int |-> i]

\* a float64 value v is kept in fixed point, as the integer v * Precision
\* rounded down
Fixed(n, d) == (n * Precision) \div d

Range(f) == {f[i] : i \in DOMAIN f}

\* sensor.ml.model.estimator.TargetValueMapping().to_dict(): the fixed mapping
\* from the two label tokens to their numeric codes
TargetValueMapping_to_dict == [s \in {"neg", "pos"} |-> IF s = "neg" THEN 0 ELSE 1]

\* ---- the tables the validation stage may hand over
\* feature value of row i, column c, in the table of variant v: distinct per
\* row, gaps growing with i; the rows of the last class, but for its first
\* ones, lie apart from the other rows
FeatureCell(i, c, v, apart) ==
  Num(i * (i + v) + c + (IF apart /\ i > 2 * MinRows THEN 1000 ELSE 0))

\* the tables of odd variants have one value missing
FeatureRow(i, v, apart) ==
  [c \in 1..NumFeatures |->
     IF v % 2 = 1 /\ i = 2 /\ c = 1 THEN NaN ELSE FeatureCell(i, c, v, apart)]

\* the label columns: which values occur
LabelSchemas ==
  { <<Str("neg"), Str("pos")>>,
    <<Str("negative"), Str("positive")>>,
    <<Str("neg"), Str("pos"), Str("negative")>>,
    <<Int_(0), Int_(1), Int_(2)>>,
    <<Str("neg")>> }

\* rows of class j: the first class has base + extra rows, the last one base
ClassCount(schema, j, base, extra) ==
  IF j = 1 THEN base + extra
  ELSE IF j = Len(schema) THEN base
  ELSE base + (extra \div 2)

RECURSIVE RoundRobin(_, _, _)
RoundRobin(schema, counts, j) ==
  IF \A k \in DOMAIN counts : counts[k] = 0 THEN <<>>
  ELSE IF counts[j] = 0 THEN RoundRobin(schema, counts, (j % Len(schema)) + 1)
  ELSE <<schema[j]>> \o
       RoundRobin(schema, [counts EXCEPT ![j] = @ - 1], (j % Len(schema)) + 1)

LabelColumn(schema, base, extra) ==
  RoundRobin(schema, [j \in 1..Len(schema) |-> ClassCount(schema, j, base, extra)], 1)

MkTable(schema, base, extra) ==
  LET y == LabelColumn(schema, base, extra)
  IN  [exists |-> TRUE, target |-> TRUE,
       X |-> [i \in 1..Len(y) |-> FeatureRow(i, extra, y[i] = schema[Len(schema)])],
       y |-> y]

Bases == {MinRows, K_NEIGHBORS + 1}

Tables ==
  { MkTable(s, b, e) : s \in LabelSchemas, b \in Bases, e \in 0..MaxExtra }

\* no file at the path
MissingFile == [exists |-> FALSE, target |-> FALSE, X |-> <<>>, y |-> <<>>]

\* a table without the TARGET_COLUMN
NoTargetTable ==
  [exists |-> TRUE, target |-> FALSE,
   X |-> [i \in 1..(2 * MinRows) |-> FeatureRow(i, 0, FALSE)], y |-> <<>>]

\* a table with a feature cell that is not a number
TextCellTable ==
  LET t == MkTable(<<Str("neg"), Str("pos")>>, MinRows, 0)
  IN  [t EXCEPT !.X[1][1] = Text]

InputFiles == Tables \cup {MissingFile, NoTargetTable, TextCellTable}

\* ---- paths (DataValidationArtifact, DataTransformationConfig)
valid_train_file_path == "validated/train.csv"
valid_test_file_path == "validated/test.csv"
transformed_train_file_path == "transformed/train.npy"
transformed_test_file_path == "transformed/test.npy"
transformed_object_file_path == "transformed_object/preprocessing.pkl"

OutputPaths ==
  {transformed_train_file_path, transformed_test_file_path, transformed_object_file_path}

\* ---- exceptions: a chain, outermost first, the original cause last
\* sensor.exception.SensorException(e, sys): wraps e and keeps it as its message
SensorException(e) == <<"SensorException">> \o e

\* ---- pandas
\* df.drop(columns=[TARGET_COLUMN]) / df[TARGET_COLUMN]
HasTarget(df) == df.target

\* Series.replace(dict): a value equal to a key becomes the key's value, any
\* other value stays as it is
replace(series, mapping) ==
  [i \in DOMAIN series |->
     IF series[i].kind = "str" /\ series[i].str \in DOMAIN mapping
       THEN Int_(mapping[series[i].str])
       ELSE series[i]]

\* ---- sklearn Pipeline(SimpleImputer(constant, 0), RobustScaler())
\* get_data_transformer_object(): the unfitted pipeline
UnbuiltPipeline ==
  [built |-> FALSE, fitted |-> FALSE, fill_value |-> 0, center4 |-> <<>>, scale4 |-> <<>>]

NewPipeline == [UnbuiltPipeline EXCEPT !.built = TRUE]

HasText(X) == \E i \in DOMAIN X : \E c \in DOMAIN X[i] : X[i][c].k = "str"

\* SimpleImputer(strategy='constant', fill_value=0).transform
Impute(p, X) ==
  [i \in DOMAIN X |->
     [c \in DOMAIN X[i] |-> IF X[i][c].k = "nan" THEN p.fill_value ELSE X[i][c].v]]

Column(M, c) == [i \in DOMAIN M |-> M[i][c]]

\* the k-th smallest element of a sequence of integers
KthSmallest(vals, k) ==
  CHOOSE v \in Range(vals) :
    /\ Cardinality({i \in DOMAIN vals : vals[i] < v}) < k
    /\ Cardinality({i \in DOMAIN vals : vals[i] <= v}) >= k

\* 4 * (the q-th quartile), numpy's linear interpolation between order statistics
Quartile4(vals, q) ==
  LET t == q * (Len(vals) - 1)
      f == t \div 4
      r == t % 4
      lo == KthSmallest(vals, f + 1)
      hi == IF r = 0 THEN lo ELSE KthSmallest(vals, f + 2)
  IN  4 * lo + r * (hi - lo)

\* RobustScaler.fit: center_ = median, scale_ = q75 - q25 (1 where that is 0);
\* both kept multiplied by 4
fit(p, X) ==
  LET M == Impute(p, X)
      iqr(c) == Quartile4(Column(M, c), 3) - Quartile4(Column(M, c), 1)
  IN  [p EXCEPT !.fitted = TRUE,
                !.center4 = [c \in 1..NumFeatures |-> Quartile4(Column(M, c), 2)],
                !.scale4 = [c \in 1..NumFeatures |-> IF iqr(c) = 0 THEN 4 ELSE iqr(c)]]

\* Pipeline.transform: impute, then (x - center_) / scale_
transform(p, X) ==
  LET M == Impute(p, X)
  IN  [i \in DOMAIN M |->
         [c \in DOMAIN M[i] |-> Fixed(4 * M[i][c] - p.center4[c], p.scale4[c])]]

\* ---- imblearn SMOTETomek(sampling_strategy='minority').fit_resample
Classes(y) == Range(y)

Count(y, l) == Cardinality({i \in DOMAIN y : y[i] = l})

\* labels of more than one Python type cannot be sorted by np.unique
MixedKinds(y) == \E i, j \in DOMAIN y : y[i].kind # y[j].kind

\* the order np.unique gives the classes
LexOrder == <<"neg", "negative", "pos", "positive">>

ClassRank(l) ==
  IF l.kind = "int" THEN l.int ELSE CHOOSE k \in DOMAIN LexOrder : LexOrder[k] = l.str

MaxCount(y) ==
  CHOOSE n \in {Count(y, l) : l \in Classes(y)} : \A l \in Classes(y) : Count(y, l) <= n

\* min(target_stats, key=target_stats.get): the first class, in np.unique's
\* order, among those with the fewest rows
MinorityClass(y) ==
  CHOOSE l \in Classes(y) :
    \A m \in Classes(y) :
      \/ Count(y, l) < Count(y, m)
      \/ Count(y, l) = Count(y, m) /\ ClassRank(l) <= ClassRank(m)

\* the k-th row of class l
NthOfClass(y, l, k) ==
  CHOOSE i \in DOMAIN y :
    y[i] = l /\ Cardinality({j \in DOMAIN y : j < i /\ y[j] = l}) = k - 1

RECURSIVE SumSq(_, _, _)
SumSq(a, b, c) ==
  IF c = 0 THEN 0 ELSE (a[c] - b[c]) * (a[c] - b[c]) + SumSq(a, b, c - 1)

\* squared Euclidean distances of the rows
Distances(X) ==
  [i \in DOMAIN X |->
     [j \in DOMAIN X |-> SumSq(X[i], X[j], NumFeatures)] \o <<>>] \o <<>>

\* the n-th nearest row to i among the rows J (kneighbors: by distance, then index)
NthNearest(D, i, J, n) ==
  CHOOSE j \in J :
    Cardinality({l \in J : \/ D[i][l] < D[i][j]
                           \/ D[i][l] = D[i][j] /\ l < j}) = n - 1

\* the random draws of SMOTE._make_samples for the t-th new row, out of n, for
\* the random stream r
Draw(r, t, n) == (r * t + t) % n

\* SMOTE: the rows added to the minority class, each on the segment between a
\* minority row and one of its K_NEIGHBORS nearest minority rows
SmoteSamples(X, y, r) ==
  LET cls == MinorityClass(y)
      m == Count(y, cls)
      D == Distances(X)
      members == {i \in DOMAIN y : y[i] = cls}
      idx(t) == Draw(r, t, m * K_NEIGHBORS)
      base(t) == NthOfClass(y, cls, (idx(t) \div K_NEIGHBORS) + 1)
      nb(t) == NthNearest(D, base(t), members \ {base(t)}, (idx(t) % K_NEIGHBORS) + 1)
      lam(t) == (r + t) % LambdaSteps
  IN  [t \in 1..(MaxCount(y) - m) |->
         [c \in 1..NumFeatures |->
            X[base(t)][c]
              + (lam(t) * (X[nb(t)][c] - X[base(t)][c])) \div LambdaSteps] \o <<>>] \o <<>>

\* j is the nearest neighbour of i: no other row is nearer, and of the rows as
\* near as j the first (or the last) by index is taken
IsNearest(D, i, j, last) ==
  \A l \in DOMAIN D :
    \/ l = i
    \/ D[i][j] < D[i][l]
    \/ D[i][j] = D[i][l] /\ (IF last THEN j >= l ELSE j <= l)

\* TomekLinks(sampling_strategy='all'): the rows whose nearest neighbour has
\* another label and has them as its nearest neighbour
TomekLinks(X, y, last) ==
  LET D == Distances(X)
  IN  [i \in DOMAIN X |->
         \E j \in DOMAIN X :
           /\ j # i
           /\ y[j] # y[i]
           /\ IsNearest(D, i, j, last)
           /\ IsNearest(D, j, i, last)] \o <<>>

RECURSIVE KeepFrom(_, _, _)
KeepFrom(seq, drop, i) ==
  IF i > Len(seq) THEN <<>>
  ELSE (IF drop[i] THEN <<>> ELSE <<seq[i]>>) \o KeepFrom(seq, drop, i + 1)

\* why fit_resample raises on (X, y), <<>> when it does not
ResampleError(y) ==
  IF MixedKinds(y) THEN (IF y[1].kind = "str" THEN <<"TypeError">> ELSE <<"ValueError">>)
  ELSE IF Cardinality(Classes(y)) < 2 THEN <<"ValueError">>
  ELSE IF /\ MaxCount(y) > Count(y, MinorityClass(y))
          /\ Count(y, MinorityClass(y)) <= K_NEIGHBORS THEN <<"ValueError">>
  ELSE <<>>

fit_resample(X, y, r, last) ==
  LET new == SmoteSamples(X, y, r)
      X2 == X \o new
      cls == MinorityClass(y)
      y2 == y \o [t \in 1..Len(new) |-> cls]
      links == TomekLinks(X2, y2, last)
  IN  [X |-> KeepFrom(X2, links, 1), y |-> KeepFrom(y2, links, 1)]

\* ---- numpy
\* element of an array: float64 arrays hold floats; an object array holds floats
\* and str objects
Elem(kind, v, s) == [kind |-> kind, val |-> v, str |-> s]

NoArray == [dtype |-> "", rows |-> <<>>]

\* np.array(series): integer labels join a float64 array as floats, text labels
\* make it an object array and stay text
LabelElem(l) ==
  IF l.kind = "int" THEN Elem("float", Fixed(l.int, 1), "") ELSE Elem("str", 0, l.str)

\* y as the first column instead of the last
c_label_first(X, y) ==
  [dtype |-> IF \E i \in DOMAIN y : y[i].kind = "str" THEN "object" ELSE "float64",
   rows |-> [i \in DOMAIN X |->
               <<LabelElem(y[i])>> \o
                 [c \in DOMAIN X[i] |-> Elem("float", X[i][c], "")]]]

\* np.c_[X, np.array(y)]: y as one more column, after the columns of X
c_(X, y) ==
  [dtype |-> IF \E i \in DOMAIN y : y[i].kind = "str" THEN "object" ELSE "float64",
   rows |-> [i \in DOMAIN X |->
               [c \in DOMAIN X[i] |-> Elem("float", X[i][c], "")]
                 \o <<LabelElem(y[i])>>]]

\* ---- DataTransformation
\* lines 37-38 of read_data: except Exception as e: raise SensorException(e, sys)
read_data_handler(e) == SensorException(e)

\* a handler that lets the exception through as it is
except_handler_bare(e) == e

\* lines 125-126: except Exception as e: raise SensorException(e, sys)
except_handler(e) == SensorException(e)

NoDf == MissingFile

DTInit ==
  /\ pc = "l67"
  /\ csv \in [{valid_train_file_path, valid_test_file_path} -> InputFiles]
  /\ disk = [p \in OutputPaths |-> <<>>]
  /\ written = <<>>
  /\ steps = <<>>
  /\ fit_calls = <<>>
  /\ train_df = NoDf
  /\ test_df = NoDf
  /\ preprocessor = UnbuiltPipeline
  /\ input_feature_train_df = <<>>
  /\ target_feature_train_df = <<>>
  /\ input_feature_test_df = <<>>
  /\ target_feature_test_df = <<>>
  /\ transformed_input_train_feature = <<>>
  /\ transformed_input_test_feature = <<>>
  /\ input_feature_train_final = <<>>
  /\ target_feature_train_final = <<>>
  /\ input_feature_test_final = <<>>
  /\ target_feature_test_final = <<>>
  /\ train_arr = NoArray
  /\ test_arr = NoArray
  /\ artifact = <<>>
  /\ exc = <<>>

\* a statement at line `at` runs and control goes to line `to`
Goto(at, to) ==
  /\ pc = at
  /\ pc' = to
  /\ steps' = Append(steps, at)

\* the statement at line `at` raises e inside the try block of lines 65-124
Raise(at, e) ==
  /\ pc = at
  /\ pc' = "raised"
  /\ steps' = Append(steps, at)
  /\ exc' = except_handler(e)

\* line 67: train_df = DataTransformation.read_data(valid_train_file_path)
ReadTrain ==
  /\ IF csv[valid_train_file_path].exists
       THEN Goto("l67", "l68") /\ train_df' = csv[valid_train_file_path] /\ UNCHANGED exc
       ELSE Raise("l67", read_data_handler(<<"FileNotFoundError">>)) /\ UNCHANGED train_df
  /\ UNCHANGED <<ioVars, test_df, input_feature_train_df, target_feature_train_df,
                 input_feature_test_df, target_feature_test_df, fitVars, featVars,
                 finalVars, arrVars, artifact, mongoVars>>

\* line 68: test_df = DataTransformation.read_data(valid_test_file_path)
ReadTest ==
  /\ IF csv[valid_test_file_path].exists
       THEN Goto("l68", "l69") /\ test_df' = csv[valid_test_file_path] /\ UNCHANGED exc
       ELSE Raise("l68", read_data_handler(<<"FileNotFoundError">>)) /\ UNCHANGED test_df
  /\ UNCHANGED <<ioVars, train_df, input_feature_train_df, target_feature_train_df,
                 input_feature_test_df, target_feature_test_df, fitVars, featVars,
                 finalVars, arrVars, artifact, mongoVars>>

\* line 69: preprocessor = self.get_data_transformer_object()  (lines 50-59)
GetTransformer ==
  /\ Goto("l69", "l72")
  /\ preprocessor' = NewPipeline
  /\ UNCHANGED <<ioVars, splitVars, fit_calls, featVars, finalVars, arrVars, artifact,
                 exc, mongoVars>>

\* lines 72-75: drop the target column (KeyError without it), take it, replace
\* its values by the mapping
SplitTrain ==
  /\ IF HasTarget(train_df)
       THEN /\ Goto("l72", "l78")
            /\ input_feature_train_df' = train_df.X
            /\ target_feature_train_df' = replace(train_df.y, TargetValueMapping_to_dict)
            /\ UNCHANGED exc
       ELSE /\ Raise("l72", <<"KeyError">>)
            /\ UNCHANGED <<input_feature_train_df, target_feature_train_df>>
  /\ UNCHANGED <<ioVars, train_df, test_df, input_feature_test_df, target_feature_test_df,
                 fitVars, featVars, finalVars, arrVars, artifact, mongoVars>>

\* lines 78-82: the same for the test table
SplitTest ==
  /\ IF HasTarget(test_df)
       THEN /\ Goto("l78", "l86")
            /\ input_feature_test_df' = test_df.X
            /\ target_feature_test_df' = replace(test_df.y, TargetValueMapping_to_dict)
            /\ UNCHANGED exc
       ELSE /\ Raise("l78", <<"KeyError">>)
            /\ UNCHANGED <<input_feature_test_df, target_feature_test_df>>
  /\ UNCHANGED <<ioVars, train_df, test_df, input_feature_train_df, target_feature_train_df,
                 fitVars, featVars, finalVars, arrVars, artifact, mongoVars>>

\* fitting on the rows of both tables
FitOnBothSplits ==
  /\ IF HasText(input_feature_train_df) \/ HasText(input_feature_test_df)
       THEN Raise("l86", <<"ValueError">>) /\ UNCHANGED preprocessor
       ELSE /\ Goto("l86", "l87")
            /\ preprocessor' = fit(preprocessor, input_feature_train_df \o input_feature_test_df)
            /\ UNCHANGED exc
  /\ fit_calls' = Append(fit_calls, input_feature_train_df \o input_feature_test_df)
  /\ UNCHANGED <<ioVars, splitVars, featVars, finalVars, arrVars, artifact, mongoVars>>

\* line 86: preprocessor_object = preprocessor.fit(input_feature_train_df)
\* (ValueError on a cell that is not a number)
Fit ==
  /\ IF HasText(input_feature_train_df)
       THEN Raise("l86", <<"ValueError">>) /\ UNCHANGED preprocessor
       ELSE /\ Goto("l86", "l87")
            /\ preprocessor' = fit(preprocessor, input_feature_train_df)
            /\ UNCHANGED exc
  /\ fit_calls' = Append(fit_calls, input_feature_train_df)
  /\ UNCHANGED <<ioVars, splitVars, featVars, finalVars, arrVars, artifact, mongoVars>>

\* line 87: transformed_input_train_feature = preprocessor_object.transform(train)
TransformTrain ==
  /\ Goto("l87", "l88")
  /\ transformed_input_train_feature' = transform(preprocessor, input_feature_train_df)
  /\ UNCHANGED <<ioVars, splitVars, fitVars, transformed_input_test_feature, finalVars,
                 arrVars, artifact, exc, mongoVars>>

\* line 88: transformed_input_test_feature = preprocessor_object.transform(test)
TransformTest ==
  /\ IF HasText(input_feature_test_df)
       THEN Raise("l88", <<"ValueError">>) /\ UNCHANGED transformed_input_test_feature
       ELSE /\ Goto("l88", "l95")
            /\ transformed_input_test_feature' = transform(preprocessor, input_feature_test_df)
            /\ UNCHANGED exc
  /\ UNCHANGED <<ioVars, splitVars, fitVars, transformed_input_train_feature, finalVars,
                 arrVars, artifact, mongoVars>>

\* lines 91-97: smt.fit_resample(transformed_input_train_feature, target_feature_train_df)
ResampleTrain ==
  /\ IF ResampleError(target_feature_train_df) # <<>>
       THEN /\ Raise("l95", ResampleError(target_feature_train_df))
            /\ UNCHANGED <<input_feature_train_final, target_feature_train_final>>
       ELSE /\ Goto("l95", "l99")
            /\ \E r \in 0..MaxRng, last \in BOOLEAN :
                 LET res == fit_resample(transformed_input_train_feature,
                                         target_feature_train_df, r, last)
                 IN  /\ input_feature_train_final' = res.X
                     /\ target_feature_train_final' = res.y
            /\ UNCHANGED exc
  /\ UNCHANGED <<ioVars, splitVars, fitVars, featVars, input_feature_test_final,
                 target_feature_test_final, arrVars, artifact, mongoVars>>

\* lines 99-101: smt.fit_resample(transformed_input_test_feature, target_feature_test_df)
ResampleTest ==
  /\ IF ResampleError(target_feature_test_df) # <<>>
       THEN /\ Raise("l99", ResampleError(target_feature_test_df))
            /\ UNCHANGED <<input_feature_test_final, target_feature_test_final>>
       ELSE /\ Goto("l99", "l104")
            /\ \E r \in 0..MaxRng, last \in BOOLEAN :
                 LET res == fit_resample(transformed_input_test_feature,
                                         target_feature_test_df, r, last)
                 IN  /\ input_feature_test_final' = res.X
                     /\ target_feature_test_final' = res.y
            /\ UNCHANGED exc
  /\ UNCHANGED <<ioVars, splitVars, fitVars, featVars, input_feature_train_final,
                 target_feature_train_final, arrVars, artifact, mongoVars>>

\* lines 104-105: train_arr = np.c_[...], test_arr = np.c_[...]
Concat ==
  /\ Goto("l104", "l109")
  /\ train_arr' = c_(input_feature_train_final, target_feature_train_final)
  /\ test_arr' = c_(input_feature_test_final, target_feature_test_final)
  /\ UNCHANGED <<ioVars, splitVars, fitVars, featVars, finalVars, artifact, exc, mongoVars>>

\* sensor.utils.main_utils.save_numpy_array_data / save_object: the content is
\* at the path afterwards
Save(path, content) ==
  /\ disk' = [disk EXCEPT ![path] = <<content>>]
  /\ written' = Append(written, path)

\* the preprocessor object written first, in place of the train array
SaveObjectFirst ==
  /\ Goto("l109", "l110")
  /\ Save(transformed_object_file_path, preprocessor)
  /\ UNCHANGED <<csv, splitVars, fitVars, featVars, finalVars, arrVars, artifact, exc,
                 mongoVars>>

\* line 109: save_numpy_array_data(transformed_train_file_path, array=train_arr)
SaveTrain ==
  /\ Goto("l109", "l110")
  /\ Save(transformed_train_file_path, train_arr)
  /\ UNCHANGED <<csv, splitVars, fitVars, featVars, finalVars, arrVars, artifact, exc,
                 mongoVars>>

\* line 110: save_numpy_array_data(transformed_test_file_path, array=test_arr)
SaveTest ==
  /\ Goto("l110", "l111")
  /\ Save(transformed_test_file_path, test_arr)
  /\ UNCHANGED <<csv, splitVars, fitVars, featVars, finalVars, arrVars, artifact, exc,
                 mongoVars>>

\* line 111: save_object(transformed_object_file_path, preprocessor_object)
SaveObject ==
  /\ Goto("l111", "l116")
  /\ Save(transformed_object_file_path, preprocessor)
  /\ UNCHANGED <<csv, splitVars, fitVars, featVars, finalVars, arrVars, artifact, exc,
                 mongoVars>>

\* lines 109-111: a save that fails (the directory cannot be made, the disk is
\* full, the object cannot be serialized) raises and writes nothing
SaveFails ==
  /\ \E at \in {"l109", "l110", "l111"} : Raise(at, <<"OSError">>)
  /\ UNCHANGED <<ioVars, splitVars, fitVars, featVars, finalVars, arrVars, artifact,
                 mongoVars>>

\* the train and test paths in each other's field
MakeArtifactSwapped ==
  /\ Goto("l116", "returned")
  /\ artifact' = << [transformed_object_file_path |-> transformed_object_file_path,
                     transformed_train_file_path |-> transformed_test_file_path,
                     transformed_test_file_path |-> transformed_train_file_path] >>
  /\ UNCHANGED <<ioVars, splitVars, fitVars, featVars, finalVars, arrVars, exc, mongoVars>>

\* lines 116-124: the artifact is made and returned
MakeArtifact ==
  /\ Goto("l116", "returned")
  /\ artifact' = << [transformed_object_file_path |-> transformed_object_file_path,
                     transformed_train_file_path |-> transformed_train_file_path,
                     transformed_test_file_path |-> transformed_test_file_path] >>
  /\ UNCHANGED <<ioVars, splitVars, fitVars, featVars, finalVars, arrVars, exc, mongoVars>>

\* the state of the other part while one part runs
MongoIdle == MongoInit

DTIdle ==
  /\ DTInit
  /\ csv = [p \in {valid_train_file_path, valid_test_file_path} |-> MissingFile]

Init == DTInit /\ MongoIdle

Next ==
  \/ ReadTrain
  \/ ReadTest
  \/ GetTransformer
  \/ SplitTrain
  \/ SplitTest
  \/ Fit
  \/ TransformTrain
  \/ TransformTest
  \/ ResampleTrain
  \/ ResampleTest
  \/ Concat
  \/ SaveTrain
  \/ SaveTest
  \/ SaveObject
  \/ SaveFails
  \/ MakeArtifact

\* one call of initiate_data_transformation on any pair of input files
Spec == Init /\ [][Next]_vars

InitMongo == MongoInit /\ DTIdle

\* callers on several threads, interleaved statement by statement
SpecMongo == InitMongo /\ [][NextMongo]_vars

\* callers that construct one after the other
SpecMongoSeq == InitMongo /\ [][NextMongoSeq]_vars

\* ================================================================ properties
Last(seq) == seq[Len(seq)]

\* a label value of the table that is not a key of the mapping
Unmapped(df) ==
  \E i \in DOMAIN df.y :
    ~(df.y[i].kind = "str" /\ df.y[i].str \in DOMAIN TargetValueMapping_to_dict)

\* C1: a label value that is not a key of the label mapping makes the call
\* fail: no array is saved for a table that holds such a value.
C1_UnmappedLabelFails ==
  /\ disk[transformed_train_file_path] # <<>> => ~Unmapped(train_df)
  /\ disk[transformed_test_file_path] # <<>> => ~Unmapped(test_df)

\* C2: a call that ends in an error has returned no artifact and has written
\* none of the three output files.
C2_FailureWritesNothing ==
  pc = "raised" => written = <<>> /\ artifact = <<>>

\* C3: over any number of constructions, in any interleaving of the callers,
\* pymongo.MongoClient is created at most once.
C3_CreatedAtMostOnce == created <= 1

\* C4: the preprocessor is fitted once, on the train features only; from the
\* fit on, through both transforms and the save, its state is the one fitted on
\* the train features, and that state transforms the test features and is the
\* one saved.
C4_NoLeakage ==
  LET fitted == fit(NewPipeline, train_df.X)
  IN  /\ Len(fit_calls) <= 1
      /\ fit_calls # <<>> => fit_calls[1] = train_df.X
      /\ pc \in {"l87", "l88", "l95", "l99", "l104", "l109", "l110", "l111", "l116",
                 "returned"} => Len(fit_calls) = 1 /\ preprocessor.fitted
      /\ preprocessor.fitted => preprocessor = fitted
      /\ transformed_input_train_feature # <<>> =>
            transformed_input_train_feature = transform(fitted, train_df.X)
      /\ transformed_input_test_feature # <<>> =>
            transformed_input_test_feature = transform(fitted, test_df.X)
      /\ disk[transformed_object_file_path] # <<>> =>
            disk[transformed_object_file_path] = <<fitted>>

\* a completed call on tables where fitting on both splits would give another state
C4_Witness ==
  /\ pc = "returned"
  /\ fit(NewPipeline, train_df.X) # fit(NewPipeline, train_df.X \o test_df.X)

\* the error each statement raises
CauseAt(at) ==
  CASE at \in {"l67", "l68"} -> {"FileNotFoundError"}
    [] at \in {"l72", "l78"} -> {"KeyError"}
    [] at \in {"l86", "l88"} -> {"ValueError"}
    [] at \in {"l95", "l99"} -> {"ValueError", "TypeError"}
    [] at \in {"l109", "l110", "l111"} -> {"OSError"}
    [] OTHER -> {}

ProgramOrder ==
  <<"l67", "l68", "l69", "l72", "l78", "l86", "l87", "l88", "l95", "l99", "l104",
    "l109", "l110", "l111", "l116">>

C5_Wrapped ==
  /\ pc # "raised" => exc = <<>>
  /\ pc = "raised" =>
       /\ Len(exc) >= 2
       /\ \A k \in 1..(Len(exc) - 1) : exc[k] = "SensorException"
       /\ Last(exc) \in CauseAt(Last(steps))
  /\ steps = SubSeq(ProgramOrder, 1, Len(steps))

\* C5: a failure reaches the caller as a SensorException whose chain ends in
\* the error of the failing statement; every statement ran at most once, in
\* program order, and nothing runs after the failure.
C5_FailureSurfacesOnce ==
  /\ []C5_Wrapped
  /\ [][pc = "raised" => UNCHANGED vars]_vars

\* a fit that failed, after both reads and both splits
C5_Witness == pc = "raised" /\ Last(steps) = "l86" /\ Last(exc) = "ValueError"

\* rows of a saved array whose last entry is the label code v
RowsWithLabel(arr, v) ==
  Cardinality({i \in DOMAIN arr.rows : Last(arr.rows[i]) = Elem("float", Fixed(v, 1), "")})

\* C6: each saved array holds as many rows of label 0 as of label 1.
C6_SavedArraysBalanced ==
  \A p \in {transformed_train_file_path, transformed_test_file_path} :
    disk[p] # <<>> => RowsWithLabel(disk[p][1], 0) = RowsWithLabel(disk[p][1], 1)

\* C7: a call that returned has written the three output files at the three
\* configured paths, and the artifact holds each configured path in its field.
C7_ReturnedArtifact ==
  pc = "returned" =>
    /\ disk[transformed_train_file_path] = <<train_arr>>
    /\ disk[transformed_test_file_path] = <<test_arr>>
    /\ disk[transformed_object_file_path] = <<preprocessor>>
    /\ Range(written) = OutputPaths
    /\ Len(artifact) = 1
    /\ artifact[1].transformed_object_file_path = transformed_object_file_path
    /\ artifact[1].transformed_train_file_path = transformed_train_file_path
    /\ artifact[1].transformed_test_file_path = transformed_test_file_path

\* a call that returned with a synthetic row in the train array
C7_Witness ==
  /\ pc = "returned"
  /\ train_arr.dtype = "float64"
  /\ \E i \in DOMAIN input_feature_train_final :
       input_feature_train_final[i] \notin Range(transformed_input_train_feature)
  /\ train_arr # test_arr

\* arr is Xf with yf as its last column
LabelledRows(arr, Xf, yf) ==
  /\ Len(arr.rows) = Len(Xf)
  /\ Len(Xf) = Len(yf)
  /\ \A i \in DOMAIN arr.rows :
       /\ Len(arr.rows[i]) = NumFeatures + 1
       /\ arr.rows[i][NumFeatures + 1] = LabelElem(yf[i])
       /\ \A c \in 1..NumFeatures :
            arr.rows[i][c] = Elem("float", Xf[i][c], "")

\* (Xf, yf) is a result of fit_resample(X, y)
ResampledFrom(Xf, yf, X, y) ==
  \E r \in 0..MaxRng, last \in BOOLEAN : fit_resample(X, y, r, last) = [X |-> Xf, y |-> yf]

\* C8: each array is the balanced feature matrix of its split with the balanced
\* labels as last column, row by row; the train array comes from the train
\* table, the test array from the test table transformed by the fitted
\* preprocessor; the saved arrays are these.
C8_ArraysAreLabelledSplits ==
  pc \in {"l109", "l110", "l111", "l116", "returned"} =>
    /\ LabelledRows(train_arr, input_feature_train_final, target_feature_train_final)
    /\ LabelledRows(test_arr, input_feature_test_final, target_feature_test_final)
    /\ disk[transformed_train_file_path] \in {<<>>, <<train_arr>>}
    /\ disk[transformed_test_file_path] \in {<<>>, <<test_arr>>}
    /\ ResampledFrom(input_feature_train_final, target_feature_train_final,
                     transform(preprocessor, train_df.X),
                     replace(train_df.y, TargetValueMapping_to_dict))
    /\ ResampledFrom(input_feature_test_final, target_feature_test_final,
                     transform(preprocessor, test_df.X),
                     replace(test_df.y, TargetValueMapping_to_dict))

\* both arrays built, of different heights, from splits that balancing changed
C8_Witness ==
  /\ pc = "l109"
  /\ Len(train_arr.rows) # Len(test_arr.rows)
  /\ Len(train_arr.rows) # Len(train_df.y)
  /\ Len(test_arr.rows) # Len(test_df.y)

SaveOrder ==
  <<transformed_train_file_path, transformed_test_file_path, transformed_object_file_path>>

\* C9: nothing is written before both reads, the fit, both transforms and both
\* resamples; the writes come in the order train array, test array,
\* preprocessor; the artifact exists only after the three writes; a failure
\* before the saves leaves nothing written.
C9_SideEffectOrder ==
  /\ Len(written) <= Len(SaveOrder)
  /\ written = SubSeq(SaveOrder, 1, Len(written))
  /\ written # <<>> =>
       {"l67", "l68", "l86", "l87", "l88", "l95", "l99"} \subseteq Range(steps)
  /\ artifact # <<>> => written = SaveOrder
  /\ (pc = "raised" /\ Last(steps) \notin {"l109", "l110", "l111"}) => written = <<>>

\* between the second and the third write
C9_Witness == pc = "l111" /\ Len(written) = 2 /\ artifact = <<>>

C10_Instances ==
  /\ \A inst \in instances :
       /\ inst.client # None
       /\ inst.client = client
       /\ inst.database = <<client, inst.database_name>>
  /\ \A t \in Threads :
       call[t].pc = "raised" => call[t].err \in {<<"ConfigurationError">>, <<"InvalidName">>}
  /\ \A t \in Threads :
       (call[t].pc = "raised" /\ call[t].err = <<"ConfigurationError">>) => client = None

C10_Step ==
  /\ client # None => client' = client
  /\ \A t \in Threads :
       (call[t].pc = "l11" /\ call'[t].pc # "l11") =>
          (call'[t].pc = "l14" <=> client = None)

\* C10: with constructions made one after the other, the class-level client,
\* once set, is never replaced; every constructed instance holds that client
\* and the database of its own name; a connection that fails leaves the class
\* attribute None and raises the error as it is, and the next construction
\* connects again.
C10_SharedHandle ==
  /\ []C10_Instances
  /\ [][C10_Step]_vars

\* a failed connection, then two instances of different names on one client
C10_Witness ==
  /\ attempts > created
  /\ \E a, b \in instances : a.database_name # b.database_name

====
